---- MODULE Spec2Model ----
(***************************************************************************)
(* Model of DynamicFBASimulator (src/DynamicFBASimulator.py): the per-step *)
(* dynamic FBA procedure (dynamic bounds, inhibition term, solve, Euler    *)
(* updates, recording) and the run loop with its feasibility flag.         *)
(*                                                                         *)
(* Numbers: Python floats are modelled as exact rationals <<num, den>>     *)
(* with den > 0 in lowest terms; rounding and NaN are not modelled.        *)
(* The COBRA model and its solver are external: the network is a small     *)
(* fixed one, and optimize() returns any status and any fluxes.            *)
(***************************************************************************)
EXTENDS Integers, Sequences, FiniteSets, TLC

\* ------------------------------------------------------------------------
\* Bounds of the model
\* ------------------------------------------------------------------------
MaxSteps == 2   \* step() executions explored per simulator

\* ------------------------------------------------------------------------
\* Float arithmetic as exact rationals
\* ------------------------------------------------------------------------
Abs(x) == IF x < 0 THEN -x ELSE x

RECURSIVE GCD(_, _)
GCD(a, b) == IF b = 0 THEN a ELSE GCD(b, a % b)

Rat(n, d) ==
    LET s == IF d < 0 THEN -1 ELSE 1
        g == GCD(Abs(n), Abs(d))
    IN  <<(s * n) \div g, (s * d) \div g>>

R(n) == <<n, 1>>
RAdd(x, y) == Rat(x[1] * y[2] + y[1] * x[2], x[2] * y[2])
RMul(x, y) == Rat(x[1] * y[1], x[2] * y[2])
RDiv(x, y) == Rat(x[1] * y[2], x[2] * y[1])
RLt(x, y) == x[1] * y[2] < y[1] * x[2]
RLe(x, y) == x[1] * y[2] <= y[1] * x[2]
RMax(x, y) == IF RLt(x, y) THEN y ELSE x
RIsZero(x) == x[1] = 0

\* ------------------------------------------------------------------------
\* The metabolic network (self.model), an external input
\* ------------------------------------------------------------------------
None == "None"

\* model.reactions
Reactions == {"EX_o2_e", "EX_nh4_e", "DM_atp_c", "O2t", "Biomass_Ecoli_core"}

\* model.exchanges: the boundary reactions scanned by the constructor
Exchanges == {"EX_o2_e", "EX_nh4_e", "DM_atp_c"}

\* rxn.metabolites
RxnMetabolites ==
    [r \in Reactions |->
        CASE r = "EX_o2_e"  -> {"o2_e"}
          [] r = "EX_nh4_e" -> {"nh4_e"}
          [] r = "DM_atp_c" -> {"atp_c"}
          [] r = "O2t"      -> {"o2_e", "o2_c"}
          [] OTHER          -> {"atp_c", "nh4_c", "o2_c"}]

Metabolites == UNION {RxnMetabolites[r] : r \in Reactions}

\* metabolite.compartment
Compartment ==
    [m \in Metabolites |-> IF m \in {"o2_e", "nh4_e"} THEN "e" ELSE "c"]

\* metabolite_id.endswith('_e')
EndsWithE(m) == m \in {"o2_e", "nh4_e"}

\* reaction bounds of the network as loaded
LoadedLower == [r \in Reactions |-> IF r = "EX_nh4_e" THEN R(-10) ELSE R(-1000)]
LoadedUpper == [r \in Reactions |-> IF r = "EX_nh4_e" THEN R(500) ELSE R(1000)]

\* sol.status.lower()
Statuses == {"optimal", "OPTIMAL", "infeasible"}
Lower == [s \in Statuses |-> IF s = "OPTIMAL" THEN "optimal" ELSE s]

\* ------------------------------------------------------------------------
\* Constructor arguments
\* ------------------------------------------------------------------------
dt == R(1800)                 \* seconds
volume == R(2)                \* L
initial_biomass == R(2)       \* gDW
dt_hr == RDiv(dt, R(3600))
BIOMASS_RXN == "Biomass_Ecoli_core"

DefaultVmax == R(10)
DefaultKm == Rat(1, 100)
vmax_params == [r \in {"EX_o2_e"} |-> R(5)]
km_params == [r \in {"EX_nh4_e"} |-> R(1)]

DefaultEssential == <<"EX_nh4_e", "EX_pi_e", "EX_h_e", "EX_h2o_e", "EX_k_e",
                      "EX_na1_e", "EX_cl_e", "EX_mg2_e", "EX_ca2_e", "EX_fe2_e">>

EmptyMap == [x \in {} |-> R(0)]

\* ext_conc argument: metabolite id -> concentration
ExtConcArgs ==
    { [m \in {"o2_e"} |-> R(3)],
      [m \in {"o2_e", "nh4_e", "atp_c"} |-> IF m = "o2_e" THEN R(3) ELSE R(-1)] }

\* setpoints argument: metabolite id -> held concentration
SetpointArgs ==
    { EmptyMap,
      [m \in {"o2_e"} |-> R(21)],
      [m \in {"co2_e"} |-> R(1)] }

\* kn_params argument: reaction id -> Kn
KnArgs ==
    { EmptyMap }
    \cup { [r \in {"EX_o2_e"} |-> R(k)] : k \in {-3, -1, 0} }
    \cup { [r \in {"EX_o2_e", "O2t"} |-> R(-1)] }

\* essential_exchanges argument (<<>> stands for None or an empty list)
EssentialArgs == { <<>>, <<"EX_o2_e", "EX_zz_e">> }

\* model.optimize(): any status, any fluxes (only the fluxes step() reads)
FluxVals == {-2, 1}
MuVals == {1}
ReadFluxes == {"EX_o2_e", "EX_nh4_e", BIOMASS_RXN}
Solutions ==
    { [status |-> st, fluxes |-> f] :
        st \in Statuses,
        f \in { g \in [ReadFluxes -> FluxVals \cup MuVals] :
                  /\ g[BIOMASS_RXN] \in MuVals
                  /\ \A r \in ReadFluxes \ {BIOMASS_RXN} : g[r] \in FluxVals } }

\* arguments of the calls
StepArgs == {0}               \* t of a direct step(t)
RunArgs == {1, 10}            \* n_steps of run(n_steps, verbose)

\* ------------------------------------------------------------------------
\* State
\* ------------------------------------------------------------------------
VARIABLES
    ext_conc,            \* self.ext_conc
    setpoints,           \* self.setpoints
    kn_params,           \* self.kn_params
    essential_exchanges, \* self.essential_exchanges
    clip_negative,       \* self.clip_negative
    biomass,             \* self.biomass
    lower_bound,         \* reaction.lower_bound of self.model
    upper_bound,         \* reaction.upper_bound of self.model
    solution_feasible,   \* self.solution_feasible
    results,             \* self.results
    pc,                  \* "idle" or "run_loop" (inside run's for loop)
    n_steps,             \* run's n_steps
    verbose,             \* run's verbose
    timestep,            \* run's loop variable
    run_entry,           \* snapshot and solve counts when the last run() began
    last_call,           \* "none", "step" or "run": the most recent call
    raised,              \* exception the most recent call ended with, or "none"
    last_step,           \* what the most recent step() execution did
    n_calls,             \* step() executions so far
    n_solves             \* model.optimize() invocations so far

vars == <<ext_conc, setpoints, kn_params, essential_exchanges, clip_negative,
          biomass, lower_bound, upper_bound, solution_feasible, results,
          pc, n_steps, verbose, timestep, run_entry, last_call, raised,
          last_step, n_calls, n_solves>>

config == <<setpoints, kn_params, essential_exchanges, clip_negative>>

\* ------------------------------------------------------------------------
\* Constructor helpers
\* ------------------------------------------------------------------------
\* _init_missing_metabolites
InitMissingMetabolites(ec) ==
    LET exchanged == UNION {RxnMetabolites[r] : r \in Exchanges}
    IN  [m \in (DOMAIN ec) \cup exchanged |->
            IF m \in DOMAIN ec THEN ec[m] ELSE R(0)]

\* _check_setpoint_keys: TRUE when no ValueError is raised
CheckSetpointKeys(sp, ec) == \A k \in DOMAIN sp : k \in DOMAIN ec

\* _get_exchange_map: metabolite id -> reaction id
ExchangeRxnOf(m) ==
    CHOOSE r \in Exchanges :
        /\ Cardinality(RxnMetabolites[r]) = 1
        /\ m \in RxnMetabolites[r]

exchange_reactions_map ==
    LET mapped == { m \in Metabolites :
                      \E r \in Exchanges :
                          /\ Cardinality(RxnMetabolites[r]) = 1
                          /\ m \in RxnMetabolites[r]
                          /\ Compartment[m] = "e" }
    IN  [m \in mapped |-> ExchangeRxnOf(m)]

\* essential_exchanges, with the default list substituted for None or []
EssentialList(arg) ==
    IF arg = <<>> THEN DefaultEssential ELSE arg

\* _apply_essential_bounds: unknown reaction ids are skipped (KeyError: pass)
EssentialRxns(ess) == { ess[i] : i \in DOMAIN ess } \cap Reactions

ApplyEssentialLower(lb, ess) ==
    [r \in Reactions |-> IF r \in EssentialRxns(ess) THEN R(-1000) ELSE lb[r]]

ApplyEssentialUpper(ub, ess) ==
    [r \in Reactions |-> IF r \in EssentialRxns(ess) THEN R(1000) ELSE ub[r]]

\* _init_timeseries
InitTimeseries(ec) ==
    [k \in {"time_s", "biomass_gDW"} \cup DOMAIN ec |-> <<>>]

\* a value that was never computed
Undefined == <<0, 0>>

NoStep == [outcome |-> "none", status |-> None, term |-> Undefined]

\* ------------------------------------------------------------------------
\* _set_dynamic_bounds
\* ------------------------------------------------------------------------
\* Michaelis-Menten uptake lower bound of one exchange reaction
UptakeLimit(reaction_id, c) ==
    LET conc == RMax(c, R(0))
        V_max == IF reaction_id \in DOMAIN vmax_params
                 THEN vmax_params[reaction_id] ELSE DefaultVmax
        Km == IF reaction_id \in DOMAIN km_params
              THEN km_params[reaction_id] ELSE DefaultKm
    IN  IF RLt(R(0), conc)
        THEN RDiv(RMul(RMul(R(-1), V_max), conc), RAdd(Km, conc))
        ELSE R(0)

\* part 1: lower bounds after the pass over the exchange map
DynamicLower(lb, ec) ==
    [r \in Reactions |->
        LET ms == { m \in DOMAIN exchange_reactions_map :
                      exchange_reactions_map[m] = r /\ m \in DOMAIN ec }
        IN  IF ms = {} THEN lb[r]
            ELSE UptakeLimit(r, ec[CHOOSE m \in ms : TRUE])]

\* part 2: the (reaction, metabolite) pairs that contribute a factor
InhibitionPairs(kn, ec) ==
    { p \in (DOMAIN kn) \X (DOMAIN ec) :
        /\ p[2] \in RxnMetabolites[p[1]]
        /\ EndsWithE(p[2])
        /\ RLt(R(0), RMax(ec[p[2]], R(0))) }

\* kn_value / (kn_value + conc) raises ZeroDivisionError for some pair
InhibitionDividesByZero(kn, ec) ==
    \E p \in InhibitionPairs(kn, ec) :
        RIsZero(RAdd(kn[p[1]], RMax(ec[p[2]], R(0))))

RECURSIVE InhibitionProduct(_, _, _)
InhibitionProduct(pairs, kn, ec) ==
    IF pairs = {} THEN R(1)
    ELSE LET p == CHOOSE q \in pairs : TRUE
             conc == RMax(ec[p[2]], R(0))
             inhibitory_factor == RDiv(kn[p[1]], RAdd(kn[p[1]], conc))
         IN  RMul(inhibitory_factor, InhibitionProduct(pairs \ {p}, kn, ec))

\* biomass_inhibition_product_term (when no division by zero occurs)
InhibitionTerm(kn, ec) == InhibitionProduct(InhibitionPairs(kn, ec), kn, ec)

\* ------------------------------------------------------------------------
\* _update_concentrations, _update_biomass, recording
\* ------------------------------------------------------------------------
\* variant: setpoint metabolites are integrated like the others
UpdateConcentrationsNoSetpointSkip(ec, fluxes, bm) ==
    [m \in DOMAIN ec |->
        IF m \notin DOMAIN exchange_reactions_map
        THEN ec[m]
        ELSE LET flux == R(fluxes[exchange_reactions_map[m]])
                 delta == RDiv(RMul(RMul(flux, bm), dt_hr), volume)
                 c == RAdd(ec[m], delta)
             IN  IF clip_negative /\ RLt(c, R(0)) THEN R(0) ELSE c]

\* variant: the clip to zero is missing
UpdateConcentrationsNoClip(ec, fluxes, bm) ==
    [m \in DOMAIN ec |->
        IF m \notin DOMAIN exchange_reactions_map \/ m \in DOMAIN setpoints
        THEN ec[m]
        ELSE LET flux == R(fluxes[exchange_reactions_map[m]])
                 delta == RDiv(RMul(RMul(flux, bm), dt_hr), volume)
             IN  RAdd(ec[m], delta)]

UpdateConcentrations(ec, fluxes, bm) ==
    [m \in DOMAIN ec |->
        IF m \notin DOMAIN exchange_reactions_map \/ m \in DOMAIN setpoints
        THEN ec[m]
        ELSE LET flux == R(fluxes[exchange_reactions_map[m]])
                 delta == RDiv(RMul(RMul(flux, bm), dt_hr), volume)
                 c == RAdd(ec[m], delta)
             IN  IF clip_negative /\ RLt(c, R(0)) THEN R(0) ELSE c]

\* variant: only the upper end of the range is checked
InhibitionInRangeUpperOnly(inhibition_term) ==
    RLe(inhibition_term, R(1))

\* the range check of _update_biomass: TRUE when no ValueError is raised
InhibitionInRange(inhibition_term) ==
    RLe(R(0), inhibition_term) /\ RLe(inhibition_term, R(1))

UpdateBiomass(bm, mu, inhibition_term) ==
    RAdd(bm, RMul(RMul(RMul(mu, inhibition_term), bm), dt_hr))

\* the appends at the end of step()
Record(res, t, bm, ec) ==
    [k \in DOMAIN res |->
        CASE k = "time_s"      -> Append(res[k], RMul(dt, R(t)))
          [] k = "biomass_gDW" -> Append(res[k], bm)
          [] OTHER             -> Append(res[k], ec[k])]

\* variant: the flag follows the latest status
FeasibleAfterLatest(flag, status) ==
    Lower[status] = "optimal"

\* self.solution_feasible after the status check of step()
FeasibleAfter(flag, status) ==
    IF Lower[status] # "optimal" THEN FALSE ELSE flag

\* ------------------------------------------------------------------------
\* step(t): the state it leaves and how it ends
\* ------------------------------------------------------------------------
\* variant: the range check comes after the biomass assignment
RangeErrorResultAfterBiomass(lb1, ec1, sol, term) ==
    [outcome |-> "ValueError", lb |-> lb1, ec |-> ec1,
     bm |-> UpdateBiomass(biomass, R(sol.fluxes[BIOMASS_RXN]), term),
     flag |-> FeasibleAfter(solution_feasible, sol.status),
     res |-> results,
     solved |-> TRUE, status |-> sol.status, term |-> term]

\* step() when _update_biomass raises ValueError: the bounds pass, the
\* status check and _update_concentrations have already taken effect
RangeErrorResult(lb1, ec1, sol, term) ==
    [outcome |-> "ValueError", lb |-> lb1, ec |-> ec1,
     bm |-> biomass,
     flag |-> FeasibleAfter(solution_feasible, sol.status),
     res |-> results,
     solved |-> TRUE, status |-> sol.status, term |-> term]

StepResult(t, sol) ==
    LET lb1  == DynamicLower(lower_bound, ext_conc)
        zde  == InhibitionDividesByZero(kn_params, ext_conc)
        term == InhibitionTerm(kn_params, ext_conc)
        mu   == R(sol.fluxes[BIOMASS_RXN])
        ec1  == UpdateConcentrations(ext_conc, sol.fluxes, biomass)
        bm1  == UpdateBiomass(biomass, mu, term)
    IN  IF zde THEN
            \* raised inside _set_dynamic_bounds, after the bounds pass
            [outcome |-> "ZeroDivisionError", lb |-> lb1, ec |-> ext_conc,
             bm |-> biomass, flag |-> solution_feasible, res |-> results,
             solved |-> FALSE, status |-> None, term |-> Undefined]
        ELSE IF ~InhibitionInRange(term) THEN
            RangeErrorResult(lb1, ec1, sol, term)
        ELSE
            [outcome |-> "returned", lb |-> lb1, ec |-> ec1,
             bm |-> bm1,
             flag |-> FeasibleAfter(solution_feasible, sol.status),
             res |-> Record(results, t, bm1, ec1),
             solved |-> TRUE, status |-> sol.status, term |-> term]

DoStep(t, sol) ==
    \E s \in {StepResult(t, sol)} :
        /\ lower_bound' = s.lb
        /\ ext_conc' = s.ec
        /\ biomass' = s.bm
        /\ solution_feasible' = s.flag
        /\ results' = s.res
        /\ last_step' = [outcome |-> s.outcome, status |-> s.status,
                         term |-> s.term]
        /\ n_calls' = n_calls + 1
        /\ n_solves' = IF s.solved THEN n_solves + 1 ELSE n_solves
        /\ UNCHANGED <<upper_bound, config>>

\* ------------------------------------------------------------------------
\* Construction
\* ------------------------------------------------------------------------
Init ==
    \E ec \in ExtConcArgs, sp \in SetpointArgs, kn \in KnArgs,
       ess \in EssentialArgs, clip \in BOOLEAN :
        /\ ext_conc = InitMissingMetabolites(ec)
        /\ setpoints = sp
        /\ CheckSetpointKeys(sp, ext_conc)
        /\ kn_params = kn
        /\ essential_exchanges = EssentialList(ess)
        /\ clip_negative = clip
        /\ biomass = initial_biomass
        /\ lower_bound = ApplyEssentialLower(LoadedLower, essential_exchanges)
        /\ upper_bound = ApplyEssentialUpper(LoadedUpper, essential_exchanges)
        /\ solution_feasible = TRUE
        /\ results = InitTimeseries(ext_conc)
        /\ pc = "idle"
        /\ n_steps = 0
        /\ verbose = FALSE
        /\ timestep = 0
        /\ run_entry = [snapshots |-> 0, solves |-> 0]
        /\ last_call = "none"
        /\ raised = "none"
        /\ last_step = NoStep
        /\ n_calls = 0
        /\ n_solves = 0

\* ------------------------------------------------------------------------
\* Calls
\* ------------------------------------------------------------------------
\* a direct call of step(t)
Step(t, sol) ==
    /\ pc = "idle"
    /\ n_calls < MaxSteps
    /\ DoStep(t, sol)
    /\ last_call' = "step"
    /\ raised' = IF StepResult(t, sol).outcome = "returned"
                 THEN "none" ELSE StepResult(t, sol).outcome
    /\ UNCHANGED <<pc, n_steps, verbose, timestep, run_entry>>

\* run(n, v) up to the head of its for loop
Run(n, v) ==
    /\ pc = "idle"
    /\ pc' = "run_loop"
    /\ n_steps' = n
    /\ verbose' = v
    /\ timestep' = 0
    /\ run_entry' = [snapshots |-> Len(results["time_s"]), solves |-> n_solves]
    /\ last_call' = "run"
    /\ raised' = "none"
    /\ UNCHANGED <<ext_conc, biomass, lower_bound, upper_bound,
                   solution_feasible, results, last_step, n_calls, n_solves,
                   config>>

print_every == n_steps \div 10

\* one iteration of the loop with solution_feasible true
RunIterStep(sol) ==
    /\ pc = "run_loop"
    /\ timestep < n_steps
    /\ solution_feasible
    /\ n_calls < MaxSteps
    /\ DoStep(timestep, sol)
    /\ LET out == StepResult(timestep, sol).outcome
       IN  IF out # "returned" THEN
               \* the exception of step() propagates out of run()
               /\ pc' = "idle" /\ raised' = out
               /\ n_steps' = 0 /\ verbose' = FALSE
               /\ UNCHANGED timestep
           ELSE IF verbose /\ print_every = 0 THEN
               \* timestep % print_every with print_every = 0
               /\ pc' = "idle" /\ raised' = "ZeroDivisionError"
               /\ n_steps' = 0 /\ verbose' = FALSE
               /\ UNCHANGED timestep
           ELSE
               /\ timestep' = timestep + 1
               /\ UNCHANGED <<pc, raised, n_steps, verbose>>
    /\ UNCHANGED <<run_entry, last_call>>

\* one iteration of the loop with solution_feasible false: break, return
RunHalt ==
    /\ pc = "run_loop"
    /\ timestep < n_steps
    /\ ~solution_feasible
    /\ pc' = "idle"
    /\ n_steps' = 0 /\ verbose' = FALSE
    /\ UNCHANGED <<ext_conc, biomass, lower_bound, upper_bound,
                   solution_feasible, results, last_step, n_calls, n_solves,
                   config, timestep, run_entry, last_call, raised>>

\* the loop is exhausted: return
RunReturn ==
    /\ pc = "run_loop"
    /\ timestep >= n_steps
    /\ pc' = "idle"
    /\ n_steps' = 0 /\ verbose' = FALSE
    /\ UNCHANGED <<ext_conc, biomass, lower_bound, upper_bound,
                   solution_feasible, results, last_step, n_calls, n_solves,
                   config, timestep, run_entry, last_call, raised>>

Next ==
    \/ \E t \in StepArgs, sol \in Solutions : Step(t, sol)
    \/ \E n \in RunArgs, v \in BOOLEAN : Run(n, v)
    \/ \E sol \in Solutions : RunIterStep(sol)
    \/ RunHalt
    \/ RunReturn

Spec == Init /\ [][Next]_vars

\* ------------------------------------------------------------------------
\* Properties
\* ------------------------------------------------------------------------
SnapshotCount == Len(results["time_s"])

\* metabolites that _update_concentrations integrates
Integrated ==
    { m \in DOMAIN ext_conc :
        m \in DOMAIN exchange_reactions_map /\ m \notin DOMAIN setpoints }

\* the last call was a run() that has returned or raised, and the first
\* non-optimal status of the simulator was reported inside that run
RunHaltedInside ==
    /\ pc = "idle"
    /\ last_call = "run"
    /\ ~solution_feasible
    /\ n_solves > run_entry.solves

\* C1: a run whose k-th step is the first to report a non-optimal status
\* returns without an exception, with solution_feasible false and exactly
\* k-1 snapshots recorded by that run.
C1_HaltedRunRecordsCompletedStepsOnly ==
    RunHaltedInside =>
        /\ raised = "none"
        /\ SnapshotCount - run_entry.snapshots
             = (n_solves - run_entry.solves) - 1

\* C2: no step changes the tracked concentration of a setpoint metabolite.
C2_SetpointsNeverIntegrated ==
    [][\A m \in DOMAIN setpoints : ext_conc'[m] = ext_conc[m]]_vars

C2_Witness ==
    /\ DOMAIN setpoints # {}
    /\ SnapshotCount >= 2
    /\ ~solution_feasible
    /\ \E m \in Integrated : results[m][1] # results[m][2]

\* C3: every recorded value of a setpoint metabolite m equals setpoints[m].
C3_RecordedSetpointIsConfiguredValue ==
    \A m \in DOMAIN setpoints :
        \A i \in DOMAIN results[m] : results[m][i] = setpoints[m]

C5_FactorInHalfOpenUnitInterval ==
    last_step.outcome = "returned" =>
        /\ RLt(R(0), last_step.term)
        /\ RLe(last_step.term, R(1))

\* C5 as amended: a step that computed an inhibition factor raises
\* ValueError exactly when the factor is outside [0, 1]; otherwise it
\* proceeds with that factor, 0 included.
C5_FactorInClosedUnitIntervalOrRaise ==
    last_step.outcome \in {"returned", "ValueError"} =>
        (last_step.outcome = "ValueError"
            <=> ~(RLe(R(0), last_step.term) /\ RLe(last_step.term, R(1))))

C5_Witness ==
    /\ last_step.outcome = "ValueError"
    /\ RLt(last_step.term, R(0))
    /\ Cardinality(DOMAIN kn_params) = 1

\* C6: solution_feasible starts true, turns false exactly at a solve whose
\* lower-cased status is not "optimal", and never turns true again.
C6_FeasibilityFlagOneWay ==
    /\ solution_feasible = TRUE
    /\ [][ /\ ~solution_feasible => ~solution_feasible'
           /\ (n_solves' = n_solves + 1 /\ Lower[last_step'.status] # "optimal")
                 => ~solution_feasible'
           /\ (solution_feasible /\ ~solution_feasible')
                 => (n_solves' = n_solves + 1
                     /\ Lower[last_step'.status] # "optimal") ]_vars

C6_Witness ==
    /\ ~solution_feasible
    /\ last_step.outcome = "returned"
    /\ last_step.status = "OPTIMAL"
    /\ n_solves >= 2

\* C7: every essential-exchange reaction of the network keeps the bounds
\* [-1000, 1000].
C7_EssentialBoundsKept ==
    \A r \in EssentialRxns(essential_exchanges) :
        lower_bound[r] = R(-1000) /\ upper_bound[r] = R(1000)

\* C8: once solution_feasible is false the run loop performs no further
\* step (no solve, no change of biomass, concentrations or results) and
\* returns normally; the step that reports the non-optimal status does not
\* make run() raise either.
C8_HaltedRunStopsWithoutRaising ==
    [][ /\ (pc = "run_loop" /\ ~solution_feasible)
              => /\ pc' = "idle"
                 /\ raised' = "none"
                 /\ UNCHANGED <<n_solves, biomass, ext_conc, results>>
        /\ (pc = "run_loop" /\ solution_feasible /\ ~solution_feasible')
              => raised' = "none" ]_vars

\* C9: a step whose status is not optimal leaves every tracked
\* concentration and the biomass as they were.
C9_NonOptimalStepDoesNotIntegrate ==
    [][ (n_solves' = n_solves + 1 /\ Lower[last_step'.status] # "optimal")
            => (ext_conc' = ext_conc /\ biomass' = biomass) ]_vars

\* C10 as stated: a step that raises the inhibition-range error leaves
\* tracked concentrations, biomass and results as they were.
C10_RangeErrorBeforeAnyMutation ==
    [][ (n_calls' = n_calls + 1 /\ last_step'.outcome = "ValueError")
            => (ext_conc' = ext_conc /\ biomass' = biomass
                /\ results' = results) ]_vars

\* C10 as amended: a step that raises the inhibition-range error leaves
\* biomass, results and the concentrations of the metabolites that are not
\* integrated as they were; the integrated concentrations have already
\* been advanced when the error is raised.
C10_RangeErrorBeforeBiomassAndRecording ==
    [][ (n_calls' = n_calls + 1 /\ last_step'.outcome = "ValueError")
            => /\ biomass' = biomass
               /\ results' = results
               /\ \A m \in (DOMAIN ext_conc) \ Integrated :
                      ext_conc'[m] = ext_conc[m] ]_vars

C10_Witness ==
    /\ last_step.outcome = "ValueError"
    /\ n_calls = 1
    /\ SnapshotCount = 0
    /\ biomass = initial_biomass
    /\ ext_conc["o2_e"] # R(3)

====
